---- MODULE Spec2Model ----
(***************************************************************************)
(* Model of static/app.js: the upload form controller.  The state is the   *)
(* DOM nodes the script writes (labels, status text, progress bar width,   *)
(* result fields, the two buttons), the two module variables downloadUrl   *)
(* and progressTimer, the intervals created by startProgress (each with    *)
(* the `progress` local of its closure) and the XMLHttpRequest objects     *)
(* created by the submit listener.  One action per event callback.         *)
(***************************************************************************)
EXTENDS Integers, FiniteSets, Sequences, TLC

VARIABLES
    salesFiles,       \* salesInput.files[0]?.name, NoFile when files is empty
    peopleFiles,      \* peopleInput.files[0]?.name, NoFile when files is empty
    salesName,        \* salesName.textContent
    peopleName,       \* peopleName.textContent
    statusText,       \* statusText.textContent
    width,            \* progressFill.style.width, in percent
    rowCount,         \* rowCount.textContent
    outputPath,       \* outputPath.textContent
    downloadDisabled, \* downloadButton.disabled
    runDisabled,      \* runButton.disabled
    downloadUrl,      \* let downloadUrl
    progressTimer,    \* let progressTimer: an interval id, NoTimer for null
    intervals,        \* interval id -> the closure's `progress`, Inactive when cleared
    xhr,              \* request id -> the XMLHttpRequest object created for it
    settled,          \* id of the request whose completion handler ran last; 0 when
                      \* none has run since the last accepted submission
    uncaught,         \* the last completion handler ended by an uncaught exception
    location,         \* window.location.href
    progressValue     \* the argument of the last call of setProgress

vars == <<salesFiles, peopleFiles, salesName, peopleName, statusText, width,
          rowCount, outputPath, downloadDisabled, runDisabled, downloadUrl,
          progressTimer, intervals, xhr, settled, uncaught, location,
          progressValue>>

-----------------------------------------------------------------------------
(* Bounds of the model *)

MaxRequests == 2     \* XMLHttpRequest objects alive at once
MaxTimers == 2       \* intervals alive at once
MaxOvershoot == 20   \* how far outside 0..100 an argument of setProgress is tried
MaxBypassTicks == 2   \* ticks of one interval followed under SpecBypass
MaxTotal == 4        \* largest event.total of an upload-progress event

(* Program constants *)

ProgressFloor == 5       \* let progress = 5; Math.max(5, uploadProgress)
ProgressCap == 90        \* Math.min(90, ...)
RandomRange == 8         \* Math.random() * 8
UploadShare == 40        \* (event.loaded / event.total) * 40
HttpOk == 200            \* xhr.status !== 200
DONE == 4                \* XMLHttpRequest.DONE

-----------------------------------------------------------------------------
(* JavaScript values *)

Undefined == [t |-> "undefined", v |-> ""]
Null == [t |-> "null", v |-> ""]
Str(s) == [t |-> "string", v |-> s]
Num(s) == [t |-> "number", v |-> s]

\* ToBoolean: undefined, null, "" and 0 are falsy
Truthy(x) == /\ x.t \in {"string", "number"}
             /\ x.v # ""
             /\ ~(x.t = "number" /\ x.v = "0")

\* (variant) ?? written as ||
CoalesceFalsy(x, y) == IF Truthy(x) THEN x ELSE y

\* x ?? y
Coalesce(x, y) == IF x.t \in {"undefined", "null"} THEN y ELSE x

\* (variant) || written as ??
OrElseNullish(x, y) == IF x.t \in {"undefined", "null"} THEN y ELSE x

\* x || y
OrElse(x, y) == IF Truthy(x) THEN x ELSE y

\* node.textContent = x
ToText(x) == IF x.t \in {"undefined", "null"} THEN "" ELSE x.v

Min(a, b) == IF a < b THEN a ELSE b
Max(a, b) == IF a > b THEN a ELSE b

-----------------------------------------------------------------------------
(* Response bodies.  responseText is either text JSON.parse rejects or the *)
(* text of a JSON value: null, a number, or an object with some of the     *)
(* fields the script reads.                                                *)

Fields == {"status", "message", "row_count", "output_path", "download_url"}

NoFields == [f \in Fields |-> Undefined]

Object(st, msg, rc, op, du) ==
    [t |-> "object",
     f |-> [status |-> st, message |-> msg, row_count |-> rc,
            output_path |-> op, download_url |-> du]]

JsonNull == [t |-> "null", f |-> NoFields]
JsonNumber == [t |-> "number", f |-> NoFields]

\* the result fields of the successful responses: each field through all its
\* kinds of value beside present values of the other two, and the three
\* fields absent, null or falsy together
ResultFields ==
    { <<rc, Str("/out/result.csv"), Str("/download/result.csv")>> :
        rc \in {Undefined, Null, Num("0"), Num("42")} }
    \cup { <<Num("42"), op, Str("/download/result.csv")>> :
        op \in {Undefined, Null, Str(""), Str("/out/result.csv")} }
    \cup { <<Num("42"), Str("/out/result.csv"), du>> :
        du \in {Undefined, Null, Str(""), Str("/download/other.csv")} }
    \cup { <<Undefined, Undefined, Undefined>>, <<Null, Null, Null>>,
           <<Num("0"), Str(""), Str("")>> }

SuccessObjects ==
    { Object(Str("ok"), Undefined, r[1], r[2], r[3]) : r \in ResultFields }

FailureObjects ==
    { Object(st, msg, Undefined, Undefined, Undefined) :
        st \in {Undefined, Str("error")},
        msg \in {Undefined, Null, Str(""), Str("disk full")} }
    \cup { Object(Str("error"), Str("disk full"), Undefined, Undefined,
                  Str("/download/stale.csv")) }

JsonValues == SuccessObjects \cup FailureObjects \cup {JsonNull, JsonNumber}

EmptyText == [json |-> FALSE, empty |-> TRUE, val |-> JsonNull]
HtmlText == [json |-> FALSE, empty |-> FALSE, val |-> JsonNull]
JsonText(v) == [json |-> TRUE, empty |-> FALSE, val |-> v]

ResponseTexts == {EmptyText, HtmlText} \cup { JsonText(v) : v \in JsonValues }

\* JSON.parse(text): a SyntaxError unless the text is JSON
JSONParse(text) == IF text.json THEN [ok |-> TRUE, val |-> text.val]
                   ELSE [ok |-> FALSE, val |-> JsonNull]

\* value.field: a TypeError on null, undefined on a primitive
Get(value, field) ==
    IF value.t = "null" THEN [ok |-> FALSE, val |-> Undefined]
    ELSE [ok |-> TRUE, val |-> value.f[field]]

-----------------------------------------------------------------------------
(* The page and the module as the script leaves them once loaded *)

NoFile == ""
PageUrl == "/"
NoTimer == 0
Inactive == -1
UNSENT == 0
OPENED == 1
HEADERS_RECEIVED == 2
LOADING == 3

RequestIds == 1..MaxRequests
TimerIds == 1..MaxTimers
SalesFileNames == {"sales.csv"}
PeopleFileNames == {"people.csv"}
Totals == { n \in 1..MaxTotal : UploadShare % n = 0 }
Increments == {0, RandomRange - 1}
HttpStatuses == {HttpOk, 500}

NoRequest == [readyState |-> UNSENT, status |-> 0, responseText |-> EmptyText,
              loaded |-> 0, total |-> 1]

\* The markup of the page: nothing selected, nothing shown, download disabled
InitPage ==
    /\ salesFiles = NoFile
    /\ peopleFiles = NoFile
    /\ salesName = "No file selected"
    /\ peopleName = "No file selected"
    /\ statusText = ""
    /\ width = 0
    /\ rowCount = "-"
    /\ outputPath = "-"
    /\ downloadDisabled = TRUE
    /\ runDisabled = FALSE

Init ==
    /\ InitPage
    /\ downloadUrl = Null
    /\ progressTimer = NoTimer
    /\ intervals = [t \in TimerIds |-> Inactive]
    /\ xhr = [i \in RequestIds |-> NoRequest]
    /\ settled = 0
    /\ uncaught = FALSE
    /\ location = PageUrl
    /\ progressValue = 0

-----------------------------------------------------------------------------
(* Helpers of the script *)

\* (variant) the upper clamp left out
setProgressNoUpperClamp(value) == Max(0, value)

\* (variant) the floor of the animation used as the lower clamp
setProgressFloorClamp(value) == Min(100, Max(ProgressFloor, value))

\* setProgress(value): the width written to progressFill
setProgress(value) == Min(100, Max(0, value))

\* a call setProgress(value) by a callback
writeProgress(value) ==
    /\ width' = setProgress(value)
    /\ progressValue' = value

\* (variant) the download reference is not cleared
resetOutputKeepsUrl ==
    /\ rowCount' = "-"
    /\ outputPath' = "-"
    /\ downloadDisabled' = TRUE
    /\ UNCHANGED downloadUrl

\* resetOutput()
resetOutput ==
    /\ rowCount' = "-"
    /\ outputPath' = "-"
    /\ downloadDisabled' = TRUE
    /\ downloadUrl' = Null

\* startProgress(), the interval it creates getting the id t
startProgress(t) ==
    /\ writeProgress(ProgressFloor)
    /\ statusText' = "Uploading..."
    /\ progressTimer' = t
    /\ intervals' = [intervals EXCEPT ![t] = ProgressFloor]

\* (variant) the interval is cleared but the handle kept
stopProgressKeepsHandle ==
    IF progressTimer # NoTimer
    THEN /\ intervals' = [intervals EXCEPT ![progressTimer] = Inactive]
         /\ UNCHANGED progressTimer
    ELSE UNCHANGED <<intervals, progressTimer>>

\* (variant) the handle is dropped without clearInterval
stopProgressKeepsInterval ==
    /\ progressTimer' = NoTimer
    /\ UNCHANGED intervals

\* stopProgress()
stopProgress ==
    IF progressTimer # NoTimer
    THEN /\ intervals' = [intervals EXCEPT ![progressTimer] = Inactive]
         /\ progressTimer' = NoTimer
    ELSE UNCHANGED <<intervals, progressTimer>>

\* errorResponse.message || "Processing failed.", inside try/catch
CaughtErrorMessage(text) ==
    LET parsed == JSONParse(text)
        msg == Get(parsed.val, "message")
    IN IF parsed.ok /\ msg.ok
       THEN ToText(OrElse(msg.val, Str("Processing failed.")))
       ELSE "Processing failed."

\* JSON.parse(xhr.responseText) and response.status outside any try: whether
\* the handler gets past them
ReadsResponse(text) ==
    JSONParse(text).ok /\ Get(JSONParse(text).val, "status").ok

\* response.status !== "ok"
IsOk(text) == Get(JSONParse(text).val, "status").val = Str("ok")

-----------------------------------------------------------------------------
(* Event callbacks *)

\* (variant) the placeholder forgotten: the label takes the name, empty or not
salesInputChangeNoPlaceholder(name) ==
    /\ name # salesFiles
    /\ salesFiles' = name
    /\ salesName' = name
    /\ UNCHANGED <<peopleFiles, peopleName, statusText, width, progressValue,
                   rowCount, outputPath, downloadDisabled, runDisabled,
                   downloadUrl, progressTimer, intervals, xhr, settled,
                   uncaught, location>>

\* salesInput "change"
salesInputChange(name) ==
    /\ name # salesFiles
    /\ salesFiles' = name
    /\ salesName' = IF name # NoFile THEN name ELSE "No file selected"
    /\ UNCHANGED <<peopleFiles, peopleName, statusText, width, progressValue, rowCount,
                   outputPath, downloadDisabled, runDisabled, downloadUrl,
                   progressTimer, intervals, xhr, settled, uncaught, location>>

\* peopleInput "change"
peopleInputChange(name) ==
    /\ name # peopleFiles
    /\ peopleFiles' = name
    /\ peopleName' = IF name # NoFile THEN name ELSE "No file selected"
    /\ UNCHANGED <<salesFiles, salesName, statusText, width, progressValue, rowCount,
                   outputPath, downloadDisabled, runDisabled, downloadUrl,
                   progressTimer, intervals, xhr, settled, uncaught, location>>

\* (variant) the reference is not tested before navigating
downloadButtonClickUnguarded ==
    /\ downloadDisabled = FALSE
    /\ location' = ToText(downloadUrl)
    /\ UNCHANGED <<salesFiles, peopleFiles, salesName, peopleName, statusText,
                   width, progressValue, rowCount, outputPath, downloadDisabled,
                   runDisabled, downloadUrl, progressTimer, intervals, xhr,
                   settled, uncaught>>

\* downloadButton "click", which a browser delivers while the button is enabled
downloadButtonClick ==
    /\ downloadDisabled = FALSE
    /\ IF Truthy(downloadUrl)
       THEN location' = ToText(downloadUrl)
       ELSE UNCHANGED location
    /\ UNCHANGED <<salesFiles, peopleFiles, salesName, peopleName, statusText,
                   width, progressValue, rowCount, outputPath, downloadDisabled,
                   runDisabled, downloadUrl, progressTimer, intervals, xhr,
                   settled, uncaught>>

\* (variant) || written as &&
MissingBothFiles == salesFiles = NoFile /\ peopleFiles = NoFile

\* whether the submit listener returns early
MissingFile == salesFiles = NoFile \/ peopleFiles = NoFile

FreeRequests == { i \in RequestIds : xhr[i].readyState \in {UNSENT, DONE} }
FreeTimers == { t \in TimerIds : intervals[t] = Inactive }
Least(S) == CHOOSE x \in S : \A y \in S : x <= y

\* form "submit": the listener, whatever dispatched the event
formSubmit(total) ==
    IF MissingFile
    THEN /\ statusText' = "Please select both files."
         /\ UNCHANGED <<salesFiles, peopleFiles, salesName, peopleName, width, progressValue,
                        rowCount, outputPath, downloadDisabled, runDisabled,
                        downloadUrl, progressTimer, intervals, xhr, settled,
                        uncaught, location>>
    ELSE /\ FreeRequests # {}
         /\ FreeTimers # {}
         /\ resetOutput
         /\ runDisabled' = TRUE
         /\ startProgress(Least(FreeTimers))
         /\ xhr' = [xhr EXCEPT ![Least(FreeRequests)] =
                       [readyState |-> OPENED, status |-> 0,
                        responseText |-> EmptyText, loaded |-> 0,
                        total |-> total]]
         /\ settled' = 0
         /\ uncaught' = FALSE
         /\ UNCHANGED <<salesFiles, peopleFiles, salesName, peopleName, location>>

\* the user activates the run button, which a browser allows while it is enabled
Submit == /\ runDisabled = FALSE
          /\ \E total \in Totals : formSubmit(total)

\* a submit event dispatched while the run button is disabled (form.requestSubmit())
SubmitBypass == /\ runDisabled = TRUE
                /\ \E total \in Totals : formSubmit(total)

\* (variant) the animation capped at 100
timerTickCapHundred(t, inc) ==
    /\ intervals[t] # Inactive
    /\ LET progress == Min(100, intervals[t] + inc)
       IN /\ intervals' = [intervals EXCEPT ![t] = progress]
          /\ width' = Min(100, Max(0, progress))
          /\ progressValue' = progress
    /\ statusText' = "Processing..."
    /\ UNCHANGED <<salesFiles, peopleFiles, salesName, peopleName, rowCount,
                   outputPath, downloadDisabled, runDisabled, downloadUrl,
                   progressTimer, xhr, settled, uncaught, location>>

\* (variant) `progress` declared inside the callback: every tick starts from 5
timerTickRestarts(t, inc) ==
    /\ intervals[t] # Inactive
    /\ LET progress == Min(ProgressCap, ProgressFloor + inc)
       IN /\ intervals' = [intervals EXCEPT ![t] = progress]
          /\ writeProgress(progress)
    /\ statusText' = "Processing..."
    /\ UNCHANGED <<salesFiles, peopleFiles, salesName, peopleName, rowCount,
                   outputPath, downloadDisabled, runDisabled, downloadUrl,
                   progressTimer, xhr, settled, uncaught, location>>

\* the setInterval callback of interval t
timerTick(t, inc) ==
    /\ intervals[t] # Inactive
    /\ LET progress == Min(ProgressCap, intervals[t] + inc)
       IN /\ intervals' = [intervals EXCEPT ![t] = progress]
          /\ writeProgress(progress)
    /\ statusText' = "Processing..."
    /\ UNCHANGED <<salesFiles, peopleFiles, salesName, peopleName, rowCount,
                   outputPath, downloadDisabled, runDisabled, downloadUrl,
                   progressTimer, xhr, settled, uncaught, location>>

\* (variant) the share written without the floor
uploadOnProgressNoFloor(i, lengthComputable, loaded) ==
    /\ xhr[i].readyState = OPENED
    /\ loaded \in xhr[i].loaded..xhr[i].total
    /\ xhr' = [xhr EXCEPT ![i].loaded = loaded]
    /\ IF lengthComputable
       THEN /\ writeProgress((loaded * UploadShare) \div xhr[i].total)
            /\ statusText' = "Uploading..."
       ELSE UNCHANGED <<width, progressValue, statusText>>
    /\ UNCHANGED <<salesFiles, peopleFiles, salesName, peopleName, rowCount,
                   outputPath, downloadDisabled, runDisabled, downloadUrl,
                   progressTimer, intervals, settled, uncaught, location>>

\* xhr.upload.onprogress of request i
uploadOnProgress(i, lengthComputable, loaded) ==
    /\ xhr[i].readyState = OPENED
    /\ loaded \in xhr[i].loaded..xhr[i].total
    /\ xhr' = [xhr EXCEPT ![i].loaded = loaded]
    /\ IF lengthComputable
       THEN /\ writeProgress(Max(ProgressFloor,
                                   (loaded * UploadShare) \div xhr[i].total))
            /\ statusText' = "Uploading..."
       ELSE UNCHANGED <<width, progressValue, statusText>>
    /\ UNCHANGED <<salesFiles, peopleFiles, salesName, peopleName, rowCount,
                   outputPath, downloadDisabled, runDisabled, downloadUrl,
                   progressTimer, intervals, settled, uncaught, location>>

\* xhr.onreadystatechange of request i before DONE: the handler returns at once
\* (the upload is over once the headers are received: no upload-progress event
\* follows, and what was sent is no longer kept)
onReadyStateChange(i) ==
    /\ xhr[i].readyState \in {OPENED, HEADERS_RECEIVED, LOADING}
    /\ xhr' = [xhr EXCEPT ![i].readyState = Min(LOADING, @ + 1),
                          ![i].loaded = 0, ![i].total = 1]
    /\ UNCHANGED <<salesFiles, peopleFiles, salesName, peopleName, statusText,
                   width, progressValue, rowCount, outputPath, downloadDisabled, runDisabled,
                   downloadUrl, progressTimer, intervals, settled, uncaught, location>>

\* (variant) the animation is not stopped
settleRequestKeepsAnimation ==
    /\ runDisabled' = FALSE
    /\ UNCHANGED <<intervals, progressTimer>>

\* (variant) the run button is not re-enabled
settleRequestKeepsLock ==
    /\ stopProgress
    /\ UNCHANGED runDisabled

\* the head of the completion handler: stopProgress(); runButton.disabled = false
settleRequest ==
    /\ stopProgress
    /\ runDisabled' = FALSE

\* the body of the completion handler after stopProgress() and the re-enabling
\* of the run button
reflectResponse(status, text) ==
    IF status # HttpOk
    THEN /\ statusText' = "Error."
         /\ outputPath' = CaughtErrorMessage(text)
         /\ writeProgress(0)
         /\ uncaught' = FALSE
         /\ UNCHANGED <<rowCount, downloadUrl, downloadDisabled>>
    ELSE IF ~ReadsResponse(text)
    THEN /\ uncaught' = TRUE
         /\ UNCHANGED <<statusText, outputPath, width, progressValue, rowCount, downloadUrl,
                        downloadDisabled>>
    ELSE LET response == JSONParse(text).val
         IN IF ~IsOk(text)
            THEN /\ statusText' = "Error."
                 /\ outputPath' = ToText(OrElse(response.f.message,
                                                Str("Processing failed.")))
                 /\ writeProgress(0)
                 /\ uncaught' = FALSE
                 /\ UNCHANGED <<rowCount, downloadUrl, downloadDisabled>>
            ELSE /\ writeProgress(100)
                 /\ statusText' = "Completed."
                 /\ rowCount' = ToText(Coalesce(response.f.row_count, Str("-")))
                 /\ outputPath' = ToText(Coalesce(response.f.output_path, Str("-")))
                 /\ downloadUrl' = response.f.download_url
                 /\ downloadDisabled' = FALSE
                 /\ uncaught' = FALSE

\* xhr.onreadystatechange of request i at DONE, the response being status, text
onDone(i, status, text) ==
    /\ xhr[i].readyState \in {OPENED, HEADERS_RECEIVED, LOADING}
    /\ status = 0 => text = EmptyText
    /\ status # 0 => xhr[i].readyState # OPENED
    /\ xhr' = [xhr EXCEPT ![i].readyState = DONE, ![i].status = status,
                          ![i].responseText = text,
                          ![i].loaded = 0, ![i].total = 1]
    /\ settleRequest
    /\ reflectResponse(status, text)
    /\ settled' = i
    /\ UNCHANGED <<salesFiles, peopleFiles, salesName, peopleName, location>>

-----------------------------------------------------------------------------
(* Specifications *)

UserEvents ==
    \/ \E name \in SalesFileNames \cup {NoFile} : salesInputChange(name)
    \/ \E name \in PeopleFileNames \cup {NoFile} : peopleInputChange(name)
    \/ Submit
    \/ downloadButtonClick

RuntimeEvents ==
    \/ \E t \in TimerIds, inc \in Increments : timerTick(t, inc)
    \/ \E i \in RequestIds, c \in BOOLEAN, loaded \in 0..MaxTotal :
          uploadOnProgress(i, c, loaded)
    \/ \E i \in RequestIds : onReadyStateChange(i)
    \/ \E i \in RequestIds, status \in HttpStatuses \cup {0}, text \in ResponseTexts :
          onDone(i, status, text)

\* normal use: submit events come from the run button alone
Next == UserEvents \/ RuntimeEvents

Spec == Init /\ [][Next]_vars

\* submit events may also be dispatched while the run button is disabled.
\* A part of the behaviours of the page: both files get selected, two kinds
\* of response body arrive, and each interval is followed for its first
\* MaxBypassTicks ticks of the largest increment.
BypassTexts ==
    { JsonText(Object(Str("ok"), Undefined, Num("42"), Str("/out/result.csv"),
                      Str("/download/result.csv"))),
      JsonText(Object(Str("error"), Str("disk full"), Undefined, Undefined,
                      Undefined)) }

NextBypass ==
    \/ \E name \in SalesFileNames : salesInputChange(name)
    \/ \E name \in PeopleFileNames : peopleInputChange(name)
    \/ Submit
    \/ SubmitBypass
    \/ \E t \in TimerIds :
          /\ intervals[t] < ProgressFloor + MaxBypassTicks * (RandomRange - 1)
          /\ timerTick(t, RandomRange - 1)
    \/ \E i \in RequestIds : onReadyStateChange(i)
    \/ \E i \in RequestIds, status \in HttpStatuses, text \in BypassTexts :
          onDone(i, status, text)

SpecBypass == Init /\ [][NextBypass]_vars

\* the transport brings every request to DONE: some completion event is
\* delivered to a request that stays outstanding
RequestCompletes ==
    \E i \in RequestIds, status \in HttpStatuses \cup {0}, text \in ResponseTexts :
        onDone(i, status, text)

SpecLive == Init /\ [][Next]_vars /\ WF_vars(RequestCompletes)

\* setProgress as a function of its argument alone: a callback passing any
\* value, inside or outside 0..100
SetProgressInputs == (0 - MaxOvershoot)..(100 + MaxOvershoot)

callSetProgress(value) ==
    /\ writeProgress(value)
    /\ UNCHANGED <<salesFiles, peopleFiles, salesName, peopleName, statusText,
                   rowCount, outputPath, downloadDisabled, runDisabled,
                   downloadUrl, progressTimer, intervals, xhr, settled,
                   uncaught, location>>

NextSetProgress == \E value \in SetProgressInputs : callSetProgress(value)

SpecSetProgress == Init /\ [][NextSetProgress]_vars

-----------------------------------------------------------------------------
(* Vocabulary of the properties, stated on the state alone *)

Outstanding(i) == xhr[i].readyState \in {OPENED, HEADERS_RECEIVED, LOADING}
AnyOutstanding == \E i \in RequestIds : Outstanding(i)

\* the response the last completion handler saw
SettledStatus == xhr[settled].status
SettledText == xhr[settled].responseText

\* the body is the text of a JSON object
IsObjectText(text) == text.json /\ text.val.t = "object"

\* the body is JSON whose fields can be read (an object or a primitive)
IsReadableText(text) == text.json /\ text.val.t # "null"

\* HTTP 200 and status "ok"
SettledSuccess ==
    /\ settled # 0
    /\ SettledStatus = 200
    /\ IsObjectText(SettledText)
    /\ SettledText.val.f.status = [t |-> "string", v |-> "ok"]

\* a failure whose body can be read
SettledReadableFailure ==
    /\ settled # 0
    /\ IsReadableText(SettledText)
    /\ ~SettledSuccess

\* the download click listener finds a reference: if (downloadUrl)
HoldsReference ==
    \/ downloadUrl.t = "string" /\ downloadUrl.v # ""
    \/ downloadUrl.t = "number" /\ downloadUrl.v # "0"

NoIntervalActive == \A t \in TimerIds : intervals[t] = Inactive

\* request i reaches DONE in this step
Settles(i) == xhr[i].readyState # DONE /\ xhr'[i].readyState = DONE

-----------------------------------------------------------------------------
(* C1 *)

\* C1: in every reachable state the download button is enabled only if a
\* download reference is held, and after a successful response it is enabled
\* if and only if the response contained a download_url.
C1_DownloadEnabledIffUrl ==
    /\ downloadDisabled = FALSE => HoldsReference
    /\ SettledSuccess =>
          (downloadDisabled = FALSE <=>
              SettledText.val.f.download_url.t # "undefined")

-----------------------------------------------------------------------------
(* C2 *)

\* C2: after a terminal response whose body is not the text of a JSON object,
\* at any HTTP status, the completion handler has raised nothing and the page
\* shows the failure state: status "Error.", message "Processing failed.",
\* progress 0, run button enabled.
C2_MalformedBodyIsFailure ==
    (settled # 0 /\ ~IsObjectText(SettledText)) =>
        /\ uncaught = FALSE
        /\ statusText = "Error."
        /\ outputPath = "Processing failed."
        /\ width = 0
        /\ runDisabled = FALSE

-----------------------------------------------------------------------------
(* C3 *)

\* C3: a submit event with the sales or the people selection missing creates
\* no request, leaves the run button as it is, starts no interval, sets the
\* status text to "Please select both files." and leaves the progress, the row
\* count, the output path, the download button and the download reference
\* unchanged.
C3_MissingFileSubmit ==
    [][ ((salesFiles = NoFile \/ peopleFiles = NoFile) /\ Submit) =>
          /\ statusText' = "Please select both files."
          /\ UNCHANGED <<xhr, runDisabled, progressTimer, intervals, width,
                         rowCount, outputPath, downloadDisabled, downloadUrl>>
      ]_vars

\* a rejected submission has been answered with the prompt
C3_Witness ==
    /\ salesFiles # NoFile
    /\ peopleFiles = NoFile
    /\ statusText = "Please select both files."
    /\ rowCount = "42"
    /\ downloadDisabled = FALSE

-----------------------------------------------------------------------------
(* C4 *)

\* C4: after a terminal response with HTTP 200 and status "ok" the progress is
\* 100, the run button enabled and the download reference the response's
\* download_url, in every state up to the next accepted submission; the state
\* right after the completion handler shows "Completed.", and no later timer
\* tick, progress event or other callback than a submit event changes that text.
C4_SuccessStatePersists ==
    /\ [](SettledSuccess =>
             /\ width = 100
             /\ runDisabled = FALSE
             /\ downloadUrl = SettledText.val.f.download_url)
    /\ [][ (/\ SettledSuccess'
            /\ ~SettledSuccess \/ statusText = "Completed."
            /\ ~Submit) => statusText' = "Completed." ]_vars

\* the success state is still shown after a later event (a selection cleared)
C4_Witness ==
    /\ SettledSuccess
    /\ salesFiles = NoFile
    /\ statusText = "Completed."
    /\ width = 100
    /\ downloadUrl = [t |-> "string", v |-> "/download/result.csv"]

-----------------------------------------------------------------------------
(* C5 *)

\* C5: the completion handler of a response with HTTP status other than 200,
\* whatever its body, leaves the progress at 0, the status text "Error.", no
\* interval running and the run button enabled.
C5_Non200IsFailure ==
    [][ \A i \in RequestIds :
          (Settles(i) /\ xhr'[i].status # 200) =>
              /\ width' = 0
              /\ statusText' = "Error."
              /\ progressTimer' = NoTimer
              /\ NoIntervalActive'
              /\ runDisabled' = FALSE ]_vars

\* an HTTP 500 with a body that is not JSON, after the animation had run
C5_Witness ==
    /\ settled # 0
    /\ SettledStatus = 500
    /\ SettledText = HtmlText
    /\ width = 0
    /\ statusText = "Error."
    /\ runDisabled = FALSE
    /\ NoIntervalActive

-----------------------------------------------------------------------------
(* C6 *)

\* the message field of the last response
SettledMessage == SettledText.val.f.message

\* C6 as claimed: after a failure response with a readable body the message
\* area shows the message field when it is present, "Processing failed."
\* otherwise.
C6_MessageWhenPresent ==
    SettledReadableFailure =>
        outputPath = IF SettledMessage.t \in {"undefined", "null"}
                     THEN "Processing failed."
                     ELSE SettledMessage.v

\* C6 as amended: after a failure response with a readable body the message
\* area shows the message field when it is present and truthy (a non-empty
\* string, a number other than 0), and "Processing failed." when it is absent,
\* null, the empty string or 0.
C6_MessageWhenTruthy ==
    SettledReadableFailure =>
        outputPath = IF \/ SettledMessage.t = "string" /\ SettledMessage.v # ""
                        \/ SettledMessage.t = "number" /\ SettledMessage.v # "0"
                     THEN SettledMessage.v
                     ELSE "Processing failed."

\* an application failure (HTTP 200) whose message is the empty string
C6_Witness ==
    /\ SettledReadableFailure
    /\ SettledStatus = 200
    /\ SettledMessage = [t |-> "string", v |-> ""]
    /\ outputPath = "Processing failed."

-----------------------------------------------------------------------------
(* C7 *)

\* C7: in every state between a settlement and the next accepted submission
\* the timer handle is null and no interval is active, and no timer tick in
\* such a state changes the progress or the status text.
C7_NoAnimationAfterSettlement ==
    /\ [](settled # 0 => progressTimer = NoTimer /\ NoIntervalActive)
    /\ [][ (settled # 0 /\ \E t \in TimerIds, inc \in Increments : timerTick(t, inc))
             => UNCHANGED <<width, statusText>> ]_vars

\* a request settled (by an exception that left the page as it was) after the
\* animation had reached its cap
C7_Witness ==
    /\ settled # 0
    /\ uncaught
    /\ statusText = "Processing..."
    /\ width = ProgressCap
    /\ progressTimer = NoTimer
    /\ NoIntervalActive

-----------------------------------------------------------------------------
(* C8 *)

\* C8: the progress is at most 90 while a request is outstanding, and it is
\* 100 only if the last terminal response was a success (HTTP 200, status
\* "ok") and no submission has been accepted since.
C8_ProgressCapAndHundred ==
    /\ AnyOutstanding => width <= 90
    /\ width = 100 => SettledSuccess

\* the animation at its cap, the response being received
C8_Witness ==
    /\ \E i \in RequestIds : xhr[i].readyState = LOADING
    /\ width = 90
    /\ statusText = "Processing..."

-----------------------------------------------------------------------------
(* C9 *)

\* C9: with submit events coming from the run button alone, at most one
\* request is outstanding, and the run button is disabled exactly when one is.
C9_OneRequestAndLock ==
    /\ Cardinality({ i \in RequestIds : Outstanding(i) }) <= 1
    /\ runDisabled <=> AnyOutstanding

\* a second attempt in flight: the run button locked again after a settlement
C9_Witness ==
    /\ runDisabled
    /\ Cardinality({ i \in RequestIds : Outstanding(i) }) = 1
    /\ \E i \in RequestIds : xhr[i].readyState = HEADERS_RECEIVED
    /\ statusText = "Processing..."

-----------------------------------------------------------------------------
(* C10 *)

\* C10: while a request is outstanding and after a response that was not a
\* success, the download reference is null, the download button disabled and
\* the row count "-".
C10_ResultClearedUnlessSuccess ==
    (AnyOutstanding \/ (settled # 0 /\ ~SettledSuccess)) =>
        /\ downloadUrl = [t |-> "null", v |-> ""]
        /\ downloadDisabled = TRUE
        /\ rowCount = "-"

\* a failure response that carried a download_url left nothing to download
C10_Witness ==
    /\ settled # 0
    /\ ~SettledSuccess
    /\ SettledText.json
    /\ SettledText.val.f.download_url = [t |-> "string", v |-> "/download/stale.csv"]
    /\ downloadUrl = [t |-> "null", v |-> ""]
    /\ downloadDisabled = TRUE
    /\ rowCount = "-"

-----------------------------------------------------------------------------
(* C11 *)

\* C11: a click on the download button navigates if and only if a download
\* reference is held, the target being the download_url of the last successful
\* response; with no reference held the click changes nothing.
C11_DownloadNavigates ==
    [][ downloadButtonClick =>
          IF HoldsReference
          THEN /\ SettledSuccess
               /\ location' = SettledText.val.f.download_url.v
          ELSE UNCHANGED vars ]_vars

\* the browser was sent to the download_url of the last success
C11_Witness ==
    /\ SettledSuccess
    /\ SettledText.val.f.download_url = [t |-> "string", v |-> "/download/other.csv"]
    /\ location = "/download/other.csv"
    /\ downloadDisabled = FALSE

-----------------------------------------------------------------------------
(* C12 *)

\* C12: a computable upload-progress event with 0 <= loaded <= total and
\* total > 0 sets the progress to max(5, (loaded / total) * 40): half sent
\* gives 20, and the result is never below 5 nor above 40.
C12_UploadProgressShare ==
    [][ \A i \in RequestIds, loaded \in 0..MaxTotal :
          uploadOnProgress(i, TRUE, loaded) =>
              /\ width' * xhr[i].total = Max(5 * xhr[i].total, loaded * 40)
              /\ width' >= 5
              /\ width' <= 40
              /\ 2 * loaded = xhr[i].total => width' = 20 ]_vars

\* half of the body sent, shown as 20
C12_Witness ==
    /\ \E i \in RequestIds :
          /\ xhr[i].readyState = OPENED
          /\ 2 * xhr[i].loaded = xhr[i].total
    /\ width = 20
    /\ statusText = "Uploading..."

-----------------------------------------------------------------------------
(* C13 *)

\* the fields of the last response
SettledRowCount == SettledText.val.f.row_count
SettledOutputPath == SettledText.val.f.output_path

\* C13: after a successful response the row count and the output path show the
\* response's value for every present non-null value, 0 and the empty string
\* included, and "-" exactly when the field is absent or null.
C13_ResultFieldsVerbatim ==
    SettledSuccess =>
        /\ rowCount = IF SettledRowCount.t \in {"undefined", "null"}
                      THEN "-" ELSE SettledRowCount.v
        /\ outputPath = IF SettledOutputPath.t \in {"undefined", "null"}
                        THEN "-" ELSE SettledOutputPath.v
        /\ rowCount = "-" <=> SettledRowCount.t \in {"undefined", "null"}
        /\ outputPath = "-" <=> SettledOutputPath.t \in {"undefined", "null"}

\* a row count of 0 and an empty output path, shown as they are
C13_Witness ==
    /\ SettledSuccess
    /\ SettledRowCount = [t |-> "number", v |-> "0"]
    /\ SettledOutputPath = [t |-> "string", v |-> ""]
    /\ rowCount = "0"
    /\ outputPath = ""

-----------------------------------------------------------------------------
(* C14 *)

\* C14 as claimed: while a request is outstanding the progress never
\* decreases, whatever the interleaving of timer ticks and upload-progress
\* events.
C14_ProgressNeverDecreases ==
    [][ (AnyOutstanding /\ AnyOutstanding') => width' >= width ]_vars

\* C14 as amended: while a request is outstanding each source alone never
\* decreases: a timer tick writes at least what the previous tick of that
\* interval (or startProgress) wrote, and an upload-progress event writes at
\* least what the previous upload-progress event of that request wrote.
C14_EachSourceNeverDecreases ==
    [][ /\ \A t \in TimerIds, inc \in Increments :
             timerTick(t, inc) => width' >= intervals[t]
        /\ \A i \in RequestIds, loaded \in 0..MaxTotal :
             uploadOnProgress(i, TRUE, loaded) =>
                 width' * xhr[i].total >= Max(5 * xhr[i].total, xhr[i].loaded * 40)
      ]_vars

\* a tick has replaced the 40 of a complete upload by the interval's own 12
C14_Witness ==
    /\ \E i \in RequestIds : xhr[i].readyState = OPENED /\ xhr[i].loaded = xhr[i].total
    /\ \E t \in TimerIds : intervals[t] = 12
    /\ width = 12
    /\ statusText = "Processing..."

-----------------------------------------------------------------------------
(* C15 *)

\* a call of stopProgress() that changes the handle or an interval
StopProgressActs ==
    /\ stopProgress
    /\ intervals' # intervals \/ progressTimer' # progressTimer
    /\ UNCHANGED <<salesFiles, peopleFiles, salesName, peopleName, statusText,
                   width, progressValue, rowCount, outputPath, downloadDisabled,
                   runDisabled, downloadUrl, xhr, settled, uncaught, location>>

\* C15: with submit events coming from the run button alone, the timer handle
\* is non-null exactly while a request is outstanding, the one interval
\* running then is the one the handle names (one started per accepted
\* submission, cancelled at its settlement), and stopProgress() with a null
\* handle changes nothing.
C15_TimerIffOutstanding ==
    /\ progressTimer # NoTimer <=> AnyOutstanding
    /\ \A t \in TimerIds : intervals[t] # Inactive <=> t = progressTimer
    /\ progressTimer = NoTimer => ~ENABLED StopProgressActs

\* the interval of the request in flight, after two ticks of 7
C15_Witness ==
    /\ \E i \in RequestIds : xhr[i].readyState = HEADERS_RECEIVED
    /\ progressTimer # NoTimer
    /\ intervals[progressTimer] = 19
    /\ width = 19

-----------------------------------------------------------------------------
(* C16 *)

\* C16: provided every request reaches DONE, an accepted submission leads
\* back to the idle state whatever the response: the run button is re-enabled
\* and the interval stopped; and a ready-state change before DONE changes
\* nothing but the request's ready state.
C16_SubmissionSettles ==
    /\ (AnyOutstanding /\ runDisabled /\ progressTimer # NoTimer) ~>
          (/\ ~AnyOutstanding
           /\ settled # 0
           /\ runDisabled = FALSE
           /\ progressTimer = NoTimer
           /\ NoIntervalActive)
    /\ [][ \A i \in RequestIds :
             (Outstanding(i) /\ Outstanding(i)'
                 /\ xhr'[i].readyState # xhr[i].readyState) =>
                 UNCHANGED <<salesFiles, peopleFiles, salesName, peopleName,
                             statusText, width, progressValue, rowCount,
                             outputPath, downloadDisabled, runDisabled,
                             downloadUrl, progressTimer, intervals, settled,
                             uncaught, location>> ]_vars

\* idle again after a body that was JSON null (the handler threw)
C16_Witness ==
    /\ settled # 0
    /\ SettledStatus = 200
    /\ SettledText = [json |-> TRUE, empty |-> FALSE, val |-> JsonNull]
    /\ runDisabled = FALSE
    /\ progressTimer = NoTimer
    /\ NoIntervalActive
    /\ ~AnyOutstanding

-----------------------------------------------------------------------------
(* C17 *)

\* C17: the progress shown is within [0, 100] whatever value a callback
\* passes to setProgress.
C17_WidthInRange ==
    /\ width >= 0
    /\ width <= 100
    /\ progressValue \in 0..100 => width = progressValue

\* an argument above 100 shown as 100
C17_Witness ==
    /\ progressValue > 100
    /\ width = 100

-----------------------------------------------------------------------------
(* C18 *)

\* C18: a change of the selection of either input sets that input's label to
\* the file's name, or to "No file selected" when the selection was cleared,
\* and leaves everything else as it was, also while a request is outstanding.
C18_SelectionChangesOnlyLabel ==
    [][ /\ salesFiles' # salesFiles =>
             /\ salesName' = IF salesFiles' = NoFile THEN "No file selected"
                             ELSE salesFiles'
             /\ UNCHANGED <<peopleFiles, peopleName, statusText, width,
                            progressValue, rowCount, outputPath,
                            downloadDisabled, runDisabled, downloadUrl,
                            progressTimer, intervals, xhr, settled, uncaught,
                            location>>
        /\ peopleFiles' # peopleFiles =>
             /\ peopleName' = IF peopleFiles' = NoFile THEN "No file selected"
                              ELSE peopleFiles'
             /\ UNCHANGED <<salesFiles, salesName, statusText, width,
                            progressValue, rowCount, outputPath,
                            downloadDisabled, runDisabled, downloadUrl,
                            progressTimer, intervals, xhr, settled, uncaught,
                            location>> ]_vars

\* the sales selection cleared while the request is in flight
C18_Witness ==
    /\ AnyOutstanding
    /\ runDisabled
    /\ salesFiles = NoFile
    /\ salesName = "No file selected"
    /\ peopleName = "people.csv"

-----------------------------------------------------------------------------
(* C19 *)

\* two requests were in flight together and both have settled
BothSettled == \A i \in {1, 2} : xhr[i].readyState = DONE

\* C19: once a submission accepted while another request was outstanding and
\* that request have both settled, no interval is active, and no timer tick
\* changes the progress and the status text the last completion handler wrote.
C19_BypassLeavesNoTimer ==
    /\ [](BothSettled => NoIntervalActive)
    /\ [][ (BothSettled /\ \E t \in TimerIds, inc \in Increments : timerTick(t, inc))
             => UNCHANGED <<width, statusText>> ]_vars

====
